---- MODULE Spec2Model ----
(***************************************************************************)
(* Authentication and credential-lifecycle core of EduNLP-X:               *)
(* backend/app/core/security.py, backend/app/services/auth_service.py,     *)
(* backend/app/services/user_service.py, backend/app/api/endpoints/auth.py *)
(*                                                                         *)
(* The database is the pair (users, tokens).  Every request runs in its    *)
(* own SQLAlchemy AsyncSession (core/database.py, get_async_db): a SELECT  *)
(* copies the committed row into the session, attribute assignments stay   *)
(* in the session, and commit() writes the changed attributes back.  The   *)
(* handlers that read and later write are therefore modelled as one step   *)
(* per awaited database call; the code between two awaits (validity check, *)
(* rehash, mark_as_used) touches only the session and the clock and is     *)
(* attached to the await that precedes it.                                 *)
(*                                                                         *)
(* Time is counted in ticks; the time-to-live values keep the order of the *)
(* configured ones (access < refresh, reset < verification).               *)
(***************************************************************************)
EXTENDS Integers, Sequences, FiniteSets, TLC

\* ------------------------------------------------------------------ bounds
MaxUsers == 3
MaxTokens == 2
MaxTime == 3
AccessTTL == 1
RefreshTTL == 2
ResetTTL == 1
VerifyTTL == 2
\* how far the clock runs where every operation is interleaved (SpecHash)
HashHorizon == 1

\* two requests can be in flight at once
Sessions == {"s1", "s2"}
Times == 0..MaxTime

\* ------------------------------------------------------------ input domain
\* e-mail addresses as typed by callers, and str.lower() on them
Emails == {"ann@x.io", "Ann@x.io", "bob@x.io", "eve@x.io"}

Lower(e) == IF e = "Ann@x.io" THEN "ann@x.io" ELSE e

\* passwords are sequences of characters
PwOne == <<"P", "a", "s", "s", "w", "o", "r", "1">>
PwTwo == <<"S", "e", "c", "r", "e", "t", "2", "x">>
PwShort == <<"W", "e", "a", "k", "1">>
Passwords == {PwOne, PwTwo, PwShort}

\* eight characters each, one class of character missing
PwNoUpper == <<"p", "a", "s", "s", "w", "o", "r", "1">>
PwNoLower == <<"P", "A", "S", "S", "W", "O", "R", "1">>
PwNoDigit == <<"P", "a", "s", "s", "w", "o", "r", "d">>
WeakPasswords == {PwShort, PwNoUpper, PwNoLower, PwNoDigit}

\* local-time offset of the server against UTC, in ticks
TzOffsets == {0 - 2, 0, 1}

SECRET_KEY == "server-key"
ForeignKey == "other-key"

\* --------------------------------------------------------- credential hasher
\* pwd_context.hash: an opaque digest of the plaintext
get_password_hash(p) == [scheme |-> "bcrypt", of |-> p]

\* a stored digest that is no hash of any scheme (the row of test_users.py)
Unhashed == [scheme |-> "none", of |-> "hashedpass"]

\* pwd_context.identify: the context has one scheme, bcrypt
Identified(d) == d.scheme = "bcrypt"

\* pwd_context.verify raises UnknownHashError when no scheme identifies the
\* digest; verify_password has no handler
verify_passwordRaises(p, d) == ~Identified(d)

\* pwd_context.verify, when it returns: recompute and compare
verify_password(p, d) == d = get_password_hash(p)

\* ------------------------------------------------------------- token codec
NoJwt == [claims |-> [sub |-> "", user_id |-> 0, type |-> "", exp |-> 0, iat |-> 0],
          sig |-> [key |-> "", over |-> [sub |-> "", user_id |-> 0, type |-> "", exp |-> 0, iat |-> 0]]]

\* jwt.encode: the MAC binds the key to the claims it was computed over
Sign(claims, key) == [key |-> key, over |-> claims]

Encode(claims, key) == [claims |-> claims, sig |-> Sign(claims, key)]

create_access_token(data, expires_delta, t) ==
    Encode([sub |-> data.sub, user_id |-> data.user_id, type |-> "access_token",
            exp |-> t + expires_delta, iat |-> t], SECRET_KEY)

create_refresh_token(data, expires_delta, t) ==
    Encode([sub |-> data.sub, user_id |-> data.user_id, type |-> "refresh_token",
            exp |-> t + expires_delta, iat |-> t], SECRET_KEY)

\* jwt.decode of python-jose: signature, then exp (ExpiredSignatureError when exp < now)
JwtDecodes(tk, t) ==
    /\ tk.sig = Sign(tk.claims, SECRET_KEY)
    /\ ~(tk.claims.exp < t)

\* datetime.fromtimestamp(exp): the expiry as naive local time
FromTimestamp(exp, off) == exp + off

\* verify_token without the comparison of the type claim
verify_tokenAnyType(tk, token_type, t, off) ==
    /\ JwtDecodes(tk, t)
    /\ ~(tk.claims.exp # 0 /\ FromTimestamp(tk.claims.exp, off) < t)

\* verify_token: TRUE when the payload is returned, FALSE when None is
verify_token(tk, token_type, t, off) ==
    /\ JwtDecodes(tk, t)
    /\ tk.claims.type = token_type
    /\ ~(tk.claims.exp # 0 /\ FromTimestamp(tk.claims.exp, off) < t)

\* ---------------------------------------------------- single-use token rows
\* used_at: <<>> is NULL, <<t>> is the time of use
NoRow == [user_id |-> 0, token |-> 0, token_type |-> "", expires_at |-> 0, used_at |-> <<>>]

\* UserToken.is_valid
is_valid(row, t) == row.used_at = <<>> /\ t < row.expires_at

\* UserToken.mark_as_used
mark_as_used(row, t) == [row EXCEPT !.used_at = <<t>>]

\* UserToken.create_reset_token
create_reset_token(uid, value, t) ==
    [user_id |-> uid, token |-> value, token_type |-> "PASSWORD_RESET",
     expires_at |-> t + ResetTTL, used_at |-> <<>>]

\* UserToken.create_verification_token
create_verification_token(uid, value, t) ==
    [user_id |-> uid, token |-> value, token_type |-> "EMAIL_VERIFICATION",
     expires_at |-> t + VerifyTTL, used_at |-> <<>>]

\* ------------------------------------------------------------------- state
VARIABLES
    now,        \* datetime.utcnow()
    tz,         \* local-time offset of the server
    users,      \* table users, the id of a row is its index
    tokens,     \* table user_tokens
    minted,     \* number of single-use token values generated so far
    sess,       \* the requests in flight, one database session each
    held,       \* the bearer pair the client holds (last one issued)
    last,       \* outcome of the last request that ran as one step
    redeemed,   \* token values for which a redemption has returned success
    undelivered \* token values whose e-mail EmailService failed to send

vars == <<now, tz, users, tokens, minted, sess, held, last, redeemed, undelivered>>

\* a request in flight: its arguments, its position, what its session has
\* loaded (ix, uid, sel) and prepared (row, mark), and its result;
\* late and stale record what was true of its token when it arrived
Idle == [op |-> "none", pc |-> "idle", email |-> "", pw |-> <<>>, token |-> 0,
         ix |-> 0, uid |-> 0, sel |-> {}, row |-> NoRow, mark |-> 0,
         late |-> FALSE, stale |-> FALSE, result |-> ""]

\* an HTTP response: status code and detail/message
Resp(status, detail) == [status |-> status, detail |-> detail]

\* the last request that ran as one step: what it was given and what it returned
NoLast == [op |-> "none", email |-> "", password |-> <<>>, presented |-> NoJwt,
           outcome |-> Resp(0, ""), uid |-> 0,
           access_token |-> NoJwt, refresh_token |-> NoJwt]

NoPair == [access_token |-> NoJwt, refresh_token |-> NoJwt]

Init ==
    /\ now = 0
    /\ tz \in TzOffsets
    /\ users = <<>>
    /\ tokens = <<>>
    /\ minted = 0
    /\ sess = [s \in Sessions |-> Idle]
    /\ held = NoPair
    /\ last = NoLast
    /\ redeemed = {}
    /\ undelivered = {}

\* ------------------------------------------------------------ persistence
\* select(User).where(User.email == email.lower()), scalar_one_or_none();
\* MultipleResultsFound is caught and None returned.  0 is None.
get_user_by_email(email) ==
    LET hits == {i \in 1..Len(users) : users[i].email = Lower(email)}
    IN  IF Cardinality(hits) = 1 THEN CHOOSE i \in hits : TRUE ELSE 0

\* select(User).where(User.id == user_id)
get_user_by_id(uid) == IF uid \in 1..Len(users) THEN uid ELSE 0

\* the token lookup without the token_type condition
FindTokenAnyKind(value, kind) ==
    LET hits == {i \in 1..Len(tokens) : tokens[i].token = value}
    IN  IF Cardinality(hits) = 1 THEN CHOOSE i \in hits : TRUE ELSE 0

\* select(UserToken).where(token == value).where(token_type == kind)
FindToken(value, kind) ==
    LET hits == {i \in 1..Len(tokens) :
                    tokens[i].token = value /\ tokens[i].token_type = kind}
    IN  IF Cardinality(hits) = 1 THEN CHOOSE i \in hits : TRUE ELSE 0

Free(s) == sess[s].pc \in {"idle", "done"}

\* the request returns and its session is closed: what the session held is gone
Done(rec, outcome) ==
    [Idle EXCEPT !.op = rec.op, !.pc = "done", !.email = rec.email, !.pw = rec.pw,
                 !.late = rec.late, !.stale = rec.stale, !.result = outcome]

\* token values a caller can present: the ones mailed out, or a made-up one
TokenInputs == {tokens[i].token : i \in 1..Len(tokens)} \cup {0}

\* ghost: the presented value names no unused, unexpired row of that kind
Stale(value, kind) ==
    ~\E i \in 1..Len(tokens) :
        /\ tokens[i].token = value
        /\ tokens[i].token_type = kind
        /\ tokens[i].used_at = <<>>
        /\ now < tokens[i].expires_at

\* ------------------------------------------------------------------- clock
Tick ==
    /\ now < MaxTime
    /\ now' = now + 1
    /\ UNCHANGED <<tz, users, tokens, minted, sess, held, last, redeemed, undelivered>>

\* ------------------------------------------------- password strength policy
UpperChars == {"P", "S", "W", "A", "O", "R"}
DigitChars == {"1", "2"}
LowerChars == {"a", "s", "w", "o", "r", "e", "c", "t", "x", "k", "p", "d"}

\* validate_password without the test for a digit
validate_passwordNoDigit(v) ==
    /\ ~(Len(v) < 8)
    /\ \E i \in 1..Len(v) : v[i] \in UpperChars
    /\ \E i \in 1..Len(v) : v[i] \in LowerChars

\* UserRegister.validate_password: TRUE when the value is accepted
validate_password(v) ==
    /\ ~(Len(v) < 8)
    /\ \E i \in 1..Len(v) : v[i] \in UpperChars
    /\ \E i \in 1..Len(v) : v[i] \in LowerChars
    /\ \E i \in 1..Len(v) : v[i] \in DigitChars

\* ---------------------------------------------------------------- register
\* endpoint register up to the existence check (request validation first)
RegisterCheck(s, email, pw) ==
    /\ Free(s)
    /\ IF ~validate_password(pw) THEN TRUE
       ELSE IF get_user_by_email(email) # 0 THEN TRUE
       ELSE Len(users) < MaxUsers
    /\ LET rec == [Idle EXCEPT !.op = "register", !.email = email, !.pw = pw]
       IN  sess' = [sess EXCEPT ![s] =
                IF ~validate_password(pw) THEN Done(rec, "ValidationError")
                ELSE IF get_user_by_email(email) # 0 THEN Done(rec, "DuplicateEmail")
                ELSE [rec EXCEPT !.pc = "insert"]]
    /\ UNCHANGED <<now, tz, users, tokens, minted, held, last, redeemed, undelivered>>

\* the row AuthService.create_user builds
NewUser(email, pw) ==
    [email |-> Lower(email), hashed_password |-> get_password_hash(pw),
     is_verified |-> FALSE, is_active |-> TRUE, has_profile |-> FALSE,
     last_login |-> <<>>]

\* create_user: add(db_user), commit, refresh
RegisterInsert(s) ==
    /\ sess[s].op = "register" /\ sess[s].pc = "insert"
    /\ Len(users) < MaxUsers
    /\ users' = Append(users, NewUser(sess[s].email, sess[s].pw))
    /\ sess' = [sess EXCEPT ![s].pc = "profile", ![s].uid = Len(users) + 1]
    /\ UNCHANGED <<now, tz, tokens, minted, held, last, redeemed, undelivered>>

\* create_user: add(user_profile), commit
RegisterProfile(s) ==
    /\ sess[s].op = "register" /\ sess[s].pc = "profile"
    /\ users' = [users EXCEPT ![sess[s].uid].has_profile = TRUE]
    /\ sess' = [sess EXCEPT ![s] = Done(sess[s], "created")]
    /\ UNCHANGED <<now, tz, tokens, minted, held, last, redeemed, undelivered>>

\* create_user: add(user_profile) or its commit raises; the except branch
\* rolls back what is uncommitted (the user row is committed already) and
\* raises HTTPException(500, "Failed to create user account")
RegisterProfileFails(s) ==
    /\ sess[s].op = "register" /\ sess[s].pc = "profile"
    /\ sess' = [sess EXCEPT ![s] = Done(sess[s], "Failed")]
    /\ UNCHANGED <<now, tz, users, tokens, minted, held, last, redeemed, undelivered>>

\* ---------------------------------------------------------- reset-password
\* reset_password without the is_valid test on the row it has found
ResetFindAnyRow(s, value, pw) ==
    /\ Free(s)
    /\ LET ix  == FindToken(value, "PASSWORD_RESET")
           rec == [Idle EXCEPT !.op = "reset_password", !.token = value, !.pw = pw,
                               !.late = (value \in redeemed),
                               !.stale = Stale(value, "PASSWORD_RESET")]
       IN  sess' = [sess EXCEPT ![s] =
                IF Len(pw) < 8 THEN Done(rec, "WeakPassword")
                ELSE IF ix = 0 THEN Done(rec, "InvalidOrExpiredToken")
                ELSE [rec EXCEPT !.pc = "load", !.ix = ix]]
    /\ UNCHANGED <<now, tz, users, tokens, minted, held, last, redeemed, undelivered>>

\* endpoint reset_password (length check), then AuthService.reset_password
\* up to the validity check on the row it has found
ResetFind(s, value, pw) ==
    /\ Free(s)
    /\ LET ix  == FindToken(value, "PASSWORD_RESET")
           rec == [Idle EXCEPT !.op = "reset_password", !.token = value, !.pw = pw,
                               !.late = (value \in redeemed),
                               !.stale = Stale(value, "PASSWORD_RESET")]
       IN  sess' = [sess EXCEPT ![s] =
                IF Len(pw) < 8 THEN Done(rec, "WeakPassword")
                ELSE IF ix = 0 THEN Done(rec, "InvalidOrExpiredToken")
                ELSE IF ~is_valid(tokens[ix], now) THEN Done(rec, "InvalidOrExpiredToken")
                ELSE [rec EXCEPT !.pc = "load", !.ix = ix]]
    /\ UNCHANGED <<now, tz, users, tokens, minted, held, last, redeemed, undelivered>>

\* get_user_by_id, then the new hash and mark_as_used inside the session
ResetLoad(s) ==
    /\ sess[s].op = "reset_password" /\ sess[s].pc = "load"
    /\ LET uid == get_user_by_id(tokens[sess[s].ix].user_id)
       IN  sess' = [sess EXCEPT ![s] =
                IF uid = 0 THEN Done(sess[s], "InvalidOrExpiredToken")
                ELSE [sess[s] EXCEPT !.pc = "commit", !.uid = uid, !.mark = now]]
    /\ UNCHANGED <<now, tz, users, tokens, minted, held, last, redeemed, undelivered>>

\* the commit of reset_password with mark_as_used left out
ResetCommitKeepsToken(s) ==
    /\ sess[s].op = "reset_password" /\ sess[s].pc = "commit"
    /\ users' = [users EXCEPT ![sess[s].uid].hashed_password = get_password_hash(sess[s].pw)]
    /\ redeemed' = redeemed \cup {sess[s].token}
    /\ sess' = [sess EXCEPT ![s] = Done(sess[s], "ok")]
    /\ UNCHANGED <<now, tz, tokens, minted, held, last, undelivered>>

\* commit: UPDATE users SET hashed_password, UPDATE user_tokens SET used_at
ResetCommit(s) ==
    /\ sess[s].op = "reset_password" /\ sess[s].pc = "commit"
    /\ users' = [users EXCEPT ![sess[s].uid].hashed_password = get_password_hash(sess[s].pw)]
    /\ tokens' = [tokens EXCEPT ![sess[s].ix] = mark_as_used(tokens[sess[s].ix], sess[s].mark)]
    /\ redeemed' = redeemed \cup {sess[s].token}
    /\ sess' = [sess EXCEPT ![s] = Done(sess[s], "ok")]
    /\ UNCHANGED <<now, tz, minted, held, last, undelivered>>

\* ------------------------------------------------------------ verify-email
\* AuthService.verify_email up to the validity check
VerifyFind(s, value) ==
    /\ Free(s)
    /\ LET ix  == FindToken(value, "EMAIL_VERIFICATION")
           rec == [Idle EXCEPT !.op = "verify_email", !.token = value,
                               !.late = (value \in redeemed),
                               !.stale = Stale(value, "EMAIL_VERIFICATION")]
       IN  sess' = [sess EXCEPT ![s] =
                IF ix = 0 THEN Done(rec, "InvalidOrExpiredToken")
                ELSE IF ~is_valid(tokens[ix], now) THEN Done(rec, "InvalidOrExpiredToken")
                ELSE [rec EXCEPT !.pc = "load", !.ix = ix]]
    /\ UNCHANGED <<now, tz, users, tokens, minted, held, last, redeemed, undelivered>>

VerifyLoad(s) ==
    /\ sess[s].op = "verify_email" /\ sess[s].pc = "load"
    /\ LET uid == get_user_by_id(tokens[sess[s].ix].user_id)
       IN  sess' = [sess EXCEPT ![s] =
                IF uid = 0 THEN Done(sess[s], "InvalidOrExpiredToken")
                ELSE [sess[s] EXCEPT !.pc = "commit", !.uid = uid, !.mark = now]]
    /\ UNCHANGED <<now, tz, users, tokens, minted, held, last, redeemed, undelivered>>

\* the commit of verify_email with mark_as_used left out
VerifyCommitKeepsToken(s) ==
    /\ sess[s].op = "verify_email" /\ sess[s].pc = "commit"
    /\ users' = [users EXCEPT ![sess[s].uid].is_verified = TRUE]
    /\ redeemed' = redeemed \cup {sess[s].token}
    /\ sess' = [sess EXCEPT ![s] = Done(sess[s], "ok")]
    /\ UNCHANGED <<now, tz, tokens, minted, held, last, undelivered>>

\* commit: UPDATE users SET is_verified, UPDATE user_tokens SET used_at
VerifyCommit(s) ==
    /\ sess[s].op = "verify_email" /\ sess[s].pc = "commit"
    /\ users' = [users EXCEPT ![sess[s].uid].is_verified = TRUE]
    /\ tokens' = [tokens EXCEPT ![sess[s].ix] = mark_as_used(tokens[sess[s].ix], sess[s].mark)]
    /\ redeemed' = redeemed \cup {sess[s].token}
    /\ sess' = [sess EXCEPT ![s] = Done(sess[s], "ok")]
    /\ UNCHANGED <<now, tz, minted, held, last, undelivered>>

\* --------------------------------------------------------- forgot-password
\* requests that have not yet generated the token value they will insert
Pending == Cardinality({s \in Sessions : sess[s].pc = "select"})

\* forgot-password that tells the caller when it found no account
ForgotLookupTellsMissing(s, email) ==
    /\ Free(s)
    /\ minted + Pending < MaxTokens
    /\ LET uid == get_user_by_email(email)
           rec == [Idle EXCEPT !.op = "forgot_password", !.email = email]
       IN  sess' = [sess EXCEPT ![s] =
                IF uid = 0 THEN Done(rec, "not-found")
                ELSE IF ~users[uid].is_active THEN Done(rec, "sent-if-exists")
                ELSE [rec EXCEPT !.pc = "select", !.uid = uid]]
    /\ UNCHANGED <<now, tz, users, tokens, minted, held, last, redeemed, undelivered>>

\* send_password_reset_email without the is_active test
ForgotLookupAnyState(s, email) ==
    /\ Free(s)
    /\ minted + Pending < MaxTokens
    /\ LET uid == get_user_by_email(email)
           rec == [Idle EXCEPT !.op = "forgot_password", !.email = email]
       IN  sess' = [sess EXCEPT ![s] =
                IF uid = 0 THEN Done(rec, "sent-if-exists")
                ELSE [rec EXCEPT !.pc = "select", !.uid = uid]]
    /\ UNCHANGED <<now, tz, users, tokens, minted, held, last, redeemed, undelivered>>

\* send_password_reset_email: get_user_by_email and the two early returns
ForgotLookup(s, email) ==
    /\ Free(s)
    /\ minted + Pending < MaxTokens
    /\ LET uid == get_user_by_email(email)
           rec == [Idle EXCEPT !.op = "forgot_password", !.email = email]
       IN  sess' = [sess EXCEPT ![s] =
                IF uid = 0 THEN Done(rec, "sent-if-exists")
                ELSE IF ~users[uid].is_active THEN Done(rec, "sent-if-exists")
                ELSE [rec EXCEPT !.pc = "select", !.uid = uid]]
    /\ UNCHANGED <<now, tz, users, tokens, minted, held, last, redeemed, undelivered>>

\* the SELECT of forgot-password without the user_id condition
ForgotSelectAllUsers(s) ==
    /\ sess[s].op = "forgot_password" /\ sess[s].pc = "select"
    /\ minted' = minted + 1
    /\ sess' = [sess EXCEPT ![s] = [sess[s] EXCEPT
            !.pc = "commit",
            !.sel = {i \in 1..Len(tokens) :
                        /\ tokens[i].token_type = "PASSWORD_RESET"
                        /\ tokens[i].used_at = <<>>},
            !.mark = now,
            !.row = create_reset_token(sess[s].uid, minted + 1, now)]]
    /\ UNCHANGED <<now, tz, users, tokens, held, last, redeemed, undelivered>>

\* the SELECT of the unused reset tokens, mark_as_used on each of them in the
\* session, generate_reset_token and create_reset_token
ForgotSelect(s) ==
    /\ sess[s].op = "forgot_password" /\ sess[s].pc = "select"
    /\ minted' = minted + 1
    /\ sess' = [sess EXCEPT ![s] = [sess[s] EXCEPT
            !.pc = "commit",
            !.sel = {i \in 1..Len(tokens) :
                        /\ tokens[i].user_id = sess[s].uid
                        /\ tokens[i].token_type = "PASSWORD_RESET"
                        /\ tokens[i].used_at = <<>>},
            !.mark = now,
            !.row = create_reset_token(sess[s].uid, minted + 1, now)]]
    /\ UNCHANGED <<now, tz, users, tokens, held, last, redeemed, undelivered>>

\* execute or commit raises inside send_password_reset_email: the except
\* branch rolls the session back and returns True
ForgotFails(s) ==
    /\ sess[s].op = "forgot_password" /\ sess[s].pc \in {"select", "commit"}
    /\ sess' = [sess EXCEPT ![s] = Done(sess[s], "sent-if-exists")]
    /\ UNCHANGED <<now, tz, users, tokens, minted, held, last, redeemed, undelivered>>

\* forgot-password that sends first and commits only when the mail went out
ForgotCommitRollsBack(s, delivered) ==
    /\ sess[s].op = "forgot_password" /\ sess[s].pc = "commit"
    /\ tokens' = IF delivered
                  THEN Append([i \in 1..Len(tokens) |->
                                  IF i \in sess[s].sel
                                  THEN mark_as_used(tokens[i], sess[s].mark)
                                  ELSE tokens[i]],
                              sess[s].row)
                  ELSE tokens
    /\ undelivered' = IF delivered THEN undelivered
                       ELSE undelivered \cup {sess[s].row.token}
    /\ sess' = [sess EXCEPT ![s] = Done(sess[s], "sent-if-exists")]
    /\ UNCHANGED <<now, tz, users, minted, held, last, redeemed>>

\* forgot-password whose commit also clears used_at on the user's other
\* reset tokens
ForgotCommitReopens(s, delivered) ==
    /\ sess[s].op = "forgot_password" /\ sess[s].pc = "commit"
    /\ tokens' = Append([i \in 1..Len(tokens) |->
                            IF i \in sess[s].sel
                            THEN mark_as_used(tokens[i], sess[s].mark)
                            ELSE IF /\ tokens[i].user_id = sess[s].uid
                                    /\ tokens[i].token_type = "PASSWORD_RESET"
                            THEN [tokens[i] EXCEPT !.used_at = <<>>]
                            ELSE tokens[i]],
                        sess[s].row)
    /\ undelivered' = IF delivered THEN undelivered
                       ELSE undelivered \cup {sess[s].row.token}
    /\ sess' = [sess EXCEPT ![s] = Done(sess[s], "sent-if-exists")]
    /\ UNCHANGED <<now, tz, users, minted, held, last, redeemed>>

\* commit: UPDATE the selected rows, INSERT the new one; then the e-mail,
\* delivered is what EmailService.send_password_reset_email returns
ForgotCommit(s, delivered) ==
    /\ sess[s].op = "forgot_password" /\ sess[s].pc = "commit"
    /\ tokens' = Append([i \in 1..Len(tokens) |->
                            IF i \in sess[s].sel
                            THEN mark_as_used(tokens[i], sess[s].mark)
                            ELSE tokens[i]],
                        sess[s].row)
    /\ undelivered' = IF delivered THEN undelivered
                       ELSE undelivered \cup {sess[s].row.token}
    /\ sess' = [sess EXCEPT ![s] = Done(sess[s], "sent-if-exists")]
    /\ UNCHANGED <<now, tz, users, minted, held, last, redeemed>>

\* -------------------------------------------------------------------- login
\* authenticate_user without the is_active test
authenticate_userAnyState(email, password) ==
    LET uid == get_user_by_email(email)
    IN  IF uid = 0 THEN 0
        ELSE IF ~verify_password(password, users[uid].hashed_password) THEN 0
        ELSE uid

\* AuthService.authenticate_user: the user's id, 0 for None
authenticate_user(email, password) ==
    LET uid == get_user_by_email(email)
    IN  IF uid = 0 THEN 0
        ELSE IF ~users[uid].is_active THEN 0
        ELSE IF ~verify_password(password, users[uid].hashed_password) THEN 0
        ELSE uid

\* authenticate_user has no handler either: what verify_password raises
\* leaves it as an exception
authenticate_userRaises(email, password) ==
    LET uid == get_user_by_email(email)
    IN  IF uid = 0 THEN FALSE
        ELSE IF ~users[uid].is_active THEN FALSE
        ELSE verify_passwordRaises(password, users[uid].hashed_password)

\* the pair both login and refresh issue for a user
IssuePair(uid) ==
    LET data == [sub |-> users[uid].email, user_id |-> uid]
    IN  [access_token  |-> create_access_token(data, AccessTTL, now),
         refresh_token |-> create_refresh_token(data, RefreshTTL, now)]

\* login without update_last_login
LoginNoStamp(email, password) ==
    LET uid == authenticate_user(email, password)
    IN  /\ IF authenticate_userRaises(email, password)
           THEN /\ last' = [NoLast EXCEPT !.op = "login",
                        !.email = email, !.password = password,
                        !.outcome = Resp(500, "Internal Server Error")]
                /\ UNCHANGED <<users, held>>
           ELSE IF uid = 0
           THEN /\ last' = [NoLast EXCEPT !.op = "login",
                        !.email = email, !.password = password,
                        !.outcome = Resp(401, "Incorrect email or password")]
                /\ UNCHANGED <<users, held>>
           ELSE /\ last' = [NoLast EXCEPT !.op = "login",
                        !.email = email, !.password = password,
                        !.outcome = Resp(200, "bearer"), !.uid = uid,
                        !.access_token = IssuePair(uid).access_token,
                        !.refresh_token = IssuePair(uid).refresh_token]
                /\ held' = IssuePair(uid)
                /\ UNCHANGED users
        /\ UNCHANGED <<now, tz, tokens, minted, sess, redeemed, undelivered>>

\* endpoint login, with update_last_login
Login(email, password) ==
    LET uid == authenticate_user(email, password)
    IN  /\ IF authenticate_userRaises(email, password)
           THEN /\ last' = [NoLast EXCEPT !.op = "login",
                        !.email = email, !.password = password,
                        !.outcome = Resp(500, "Internal Server Error")]
                /\ UNCHANGED <<users, held>>
           ELSE IF uid = 0
           THEN /\ last' = [NoLast EXCEPT !.op = "login",
                        !.email = email, !.password = password,
                        !.outcome = Resp(401, "Incorrect email or password")]
                /\ UNCHANGED <<users, held>>
           ELSE /\ last' = [NoLast EXCEPT !.op = "login",
                        !.email = email, !.password = password,
                        !.outcome = Resp(200, "bearer"), !.uid = uid,
                        !.access_token = IssuePair(uid).access_token,
                        !.refresh_token = IssuePair(uid).refresh_token]
                /\ held' = IssuePair(uid)
                /\ users' = [users EXCEPT ![uid].last_login = <<now>>]
        /\ UNCHANGED <<now, tz, tokens, minted, sess, redeemed, undelivered>>

\* ------------------------------------------------------------------ refresh
OtherType(ty) == IF ty = "access_token" THEN "refresh_token" ELSE "access_token"

\* what a caller can put in a request: a token it holds, garbage, a token it
\* holds with the type rewritten under the old signature, or the same claims
\* signed with a key of its own
Presentable ==
    LET mine == {held.access_token, held.refresh_token} \ {NoJwt}
    IN  mine \cup {NoJwt}
             \cup {[t EXCEPT !.claims.type = OtherType(t.claims.type)] : t \in mine}
             \cup {Encode(t.claims, ForeignKey) : t \in mine}

\* verify_refresh_token without the is_active test
verify_refresh_tokenAnyState(tk) ==
    IF ~verify_token(tk, "refresh_token", now, tz) THEN 0
    ELSE IF tk.claims.user_id = 0 THEN 0
    ELSE get_user_by_id(tk.claims.user_id)

\* AuthService.verify_refresh_token: the user's id, 0 for None
verify_refresh_token(tk) ==
    IF ~verify_token(tk, "refresh_token", now, tz) THEN 0
    ELSE IF tk.claims.user_id = 0 THEN 0
    ELSE LET uid == get_user_by_id(tk.claims.user_id)
         IN  IF uid = 0 \/ ~users[uid].is_active THEN 0 ELSE uid

\* endpoint refresh_token
Refresh(tk) ==
    LET uid == verify_refresh_token(tk)
    IN  /\ IF uid = 0
           THEN /\ last' = [NoLast EXCEPT !.op = "refresh", !.presented = tk,
                        !.outcome = Resp(401, "Invalid refresh token")]
                /\ UNCHANGED held
           ELSE /\ last' = [NoLast EXCEPT !.op = "refresh", !.presented = tk,
                        !.outcome = Resp(200, "bearer"), !.uid = uid,
                        !.access_token = IssuePair(uid).access_token,
                        !.refresh_token = IssuePair(uid).refresh_token]
                /\ held' = IssuePair(uid)
        /\ UNCHANGED <<now, tz, users, tokens, minted, sess, redeemed, undelivered>>

\* ------------------------------------------------- authenticated endpoints
\* AuthService.get_current_user: the user's id, 0 for None
get_current_user(tk) ==
    IF ~verify_token(tk, "access_token", now, tz) THEN 0
    ELSE IF tk.claims.user_id = 0 THEN 0
    ELSE LET uid == get_user_by_id(tk.claims.user_id)
         IN  IF uid = 0 \/ ~users[uid].is_active THEN 0 ELSE uid

\* endpoint logout behind Depends(get_current_user): nothing is stored, the
\* client is left to drop its tokens
Logout(tk) ==
    LET uid == get_current_user(tk)
    IN  /\ last' = IF uid = 0
                   THEN [NoLast EXCEPT !.op = "logout", !.presented = tk,
                            !.outcome = Resp(401, "Could not validate credentials")]
                   ELSE [NoLast EXCEPT !.op = "logout", !.presented = tk, !.uid = uid,
                            !.outcome = Resp(200, "Successfully logged out")]
        /\ UNCHANGED <<now, tz, users, tokens, minted, sess, held, redeemed, undelivered>>

\* deactivation that also wipes the stored digest
DeactivateScrubs(tk) ==
    LET uid == get_current_user(tk)
    IN  /\ IF uid = 0
           THEN /\ last' = [NoLast EXCEPT !.op = "deactivate", !.presented = tk,
                        !.outcome = Resp(401, "Could not validate credentials")]
                /\ UNCHANGED users
           ELSE /\ last' = [NoLast EXCEPT !.op = "deactivate", !.presented = tk, !.uid = uid,
                        !.outcome = Resp(200, "Account deactivated successfully")]
                /\ users' = [users EXCEPT ![uid].is_active = FALSE,
                                          ![uid].hashed_password = Unhashed]
        /\ UNCHANGED <<now, tz, tokens, minted, sess, held, redeemed, undelivered>>

\* endpoint deactivate_account, UserService.deactivate_user
Deactivate(tk) ==
    LET uid == get_current_user(tk)
    IN  /\ IF uid = 0
           THEN /\ last' = [NoLast EXCEPT !.op = "deactivate", !.presented = tk,
                        !.outcome = Resp(401, "Could not validate credentials")]
                /\ UNCHANGED users
           ELSE /\ last' = [NoLast EXCEPT !.op = "deactivate", !.presented = tk, !.uid = uid,
                        !.outcome = Resp(200, "Account deactivated successfully")]
                /\ users' = [users EXCEPT ![uid].is_active = FALSE]
        /\ UNCHANGED <<now, tz, tokens, minted, sess, held, redeemed, undelivered>>

\* send_verification_email without the early return for a verified user
send_verification_emailAlways(uid, delivered, tk) ==
    /\ minted + Pending < MaxTokens
    /\ minted' = minted + 1
    /\ tokens' = Append(tokens, create_verification_token(uid, minted + 1, now))
    /\ undelivered' = IF delivered THEN undelivered ELSE undelivered \cup {minted + 1}
    /\ last' = [NoLast EXCEPT !.op = "send_verification", !.presented = tk,
            !.uid = uid,
            !.outcome = IF delivered
                        THEN Resp(200, "Verification email sent successfully")
                        ELSE Resp(500, "Failed to send verification email")]
    /\ UNCHANGED <<now, tz, users, sess, held, redeemed>>

\* change_password without the test of the current password
ChangePasswordAnyCurrent(tk, current, new) ==
    LET uid == get_current_user(tk)
        req == [NoLast EXCEPT !.op = "change_password", !.presented = tk,
                              !.password = current]
    IN  /\ IF uid = 0
           THEN /\ last' = [req EXCEPT
                        !.outcome = Resp(401, "Could not validate credentials")]
                /\ UNCHANGED users
           ELSE IF ~validate_password(new)
           THEN /\ last' = [req EXCEPT !.uid = uid,
                        !.outcome = Resp(422, "ValidationError")]
                /\ UNCHANGED users
           ELSE /\ last' = [req EXCEPT !.uid = uid,
                        !.outcome = Resp(200, "Password changed successfully")]
                /\ users' = [users EXCEPT ![uid].hashed_password = get_password_hash(new)]
        /\ UNCHANGED <<now, tz, tokens, minted, sess, held, redeemed, undelivered>>

\* endpoint change_password behind Depends(get_current_user), the body
\* validated by PasswordChange, then UserService.change_password
ChangePassword(tk, current, new) ==
    LET uid == get_current_user(tk)
        req == [NoLast EXCEPT !.op = "change_password", !.presented = tk,
                              !.password = current]
    IN  /\ IF uid = 0
           THEN /\ last' = [req EXCEPT
                        !.outcome = Resp(401, "Could not validate credentials")]
                /\ UNCHANGED users
           ELSE IF ~validate_password(new)
           THEN /\ last' = [req EXCEPT !.uid = uid,
                        !.outcome = Resp(422, "ValidationError")]
                /\ UNCHANGED users
           ELSE IF verify_passwordRaises(current, users[uid].hashed_password)
           THEN \* caught by except Exception: rollback, return False
                /\ last' = [req EXCEPT !.uid = uid,
                        !.outcome = Resp(400, "Invalid current password or password change failed")]
                /\ UNCHANGED users
           ELSE IF ~verify_password(current, users[uid].hashed_password)
           THEN /\ last' = [req EXCEPT !.uid = uid,
                        !.outcome = Resp(400, "Invalid current password or password change failed")]
                /\ UNCHANGED users
           ELSE /\ last' = [req EXCEPT !.uid = uid,
                        !.outcome = Resp(200, "Password changed successfully")]
                /\ users' = [users EXCEPT ![uid].hashed_password = get_password_hash(new)]
        /\ UNCHANGED <<now, tz, tokens, minted, sess, held, redeemed, undelivered>>

\* send-verification that marks the user's earlier verification tokens used,
\* the way forgot-password does for reset tokens
send_verification_emailPrunes(uid, delivered, tk) ==
    /\ IF users[uid].is_verified THEN TRUE ELSE minted + Pending < MaxTokens
    /\ IF users[uid].is_verified
       THEN /\ last' = [NoLast EXCEPT !.op = "send_verification", !.presented = tk,
                    !.uid = uid,
                    !.outcome = Resp(200, "Verification email sent successfully")]
            /\ UNCHANGED <<tokens, minted, undelivered>>
       ELSE /\ minted' = minted + 1
            /\ tokens' = Append([i \in 1..Len(tokens) |->
                                    IF /\ tokens[i].user_id = uid
                                       /\ tokens[i].token_type = "EMAIL_VERIFICATION"
                                       /\ tokens[i].used_at = <<>>
                                    THEN mark_as_used(tokens[i], now)
                                    ELSE tokens[i]],
                                create_verification_token(uid, minted + 1, now))
            /\ undelivered' = IF delivered THEN undelivered
                               ELSE undelivered \cup {minted + 1}
            /\ last' = [NoLast EXCEPT !.op = "send_verification", !.presented = tk,
                    !.uid = uid,
                    !.outcome = IF delivered
                                THEN Resp(200, "Verification email sent successfully")
                                ELSE Resp(500, "Failed to send verification email")]
    /\ UNCHANGED <<now, tz, users, sess, held, redeemed>>

\* AuthService.send_verification_email for the authenticated user uid;
\* delivered is what EmailService.send_verification_email returns
send_verification_email(uid, delivered, tk) ==
    /\ IF users[uid].is_verified THEN TRUE ELSE minted + Pending < MaxTokens
    /\ IF users[uid].is_verified
       THEN /\ last' = [NoLast EXCEPT !.op = "send_verification", !.presented = tk,
                    !.uid = uid,
                    !.outcome = Resp(200, "Verification email sent successfully")]
            /\ UNCHANGED <<tokens, minted, undelivered>>
       ELSE /\ minted' = minted + 1
            /\ tokens' = Append(tokens, create_verification_token(uid, minted + 1, now))
            /\ undelivered' = IF delivered THEN undelivered
                               ELSE undelivered \cup {minted + 1}
            /\ last' = [NoLast EXCEPT !.op = "send_verification", !.presented = tk,
                    !.uid = uid,
                    !.outcome = IF delivered
                                THEN Resp(200, "Verification email sent successfully")
                                ELSE Resp(500, "Failed to send verification email")]
    /\ UNCHANGED <<now, tz, users, sess, held, redeemed>>

\* endpoint send_verification_email behind Depends(get_current_user)
SendVerification(tk, delivered) ==
    LET uid == get_current_user(tk)
    IN  IF uid = 0
        THEN /\ last' = [NoLast EXCEPT !.op = "send_verification", !.presented = tk,
                     !.outcome = Resp(401, "Could not validate credentials")]
             /\ UNCHANGED <<now, tz, users, tokens, minted, sess, held, redeemed, undelivered>>
        ELSE send_verification_email(uid, delivered, tk)

\* the same endpoint called by a logged-in (hence active) user, the bearer
\* token left out of the state
SendVerificationAs(uid, delivered) ==
    /\ uid \in 1..Len(users)
    /\ users[uid].is_active
    /\ send_verification_email(uid, delivered, NoJwt)

\* ------------------------------------------------------------- the system
Next ==
    \/ Tick
    \/ \E s \in Sessions, e \in Emails, p \in Passwords : RegisterCheck(s, e, p)
    \/ \E s \in Sessions : RegisterInsert(s)
    \/ \E s \in Sessions : RegisterProfile(s)
    \/ \E s \in Sessions : RegisterProfileFails(s)
    \/ \E s \in Sessions, v \in TokenInputs, p \in Passwords : ResetFind(s, v, p)
    \/ \E s \in Sessions : ResetLoad(s)
    \/ \E s \in Sessions : ResetCommit(s)
    \/ \E s \in Sessions, v \in TokenInputs : VerifyFind(s, v)
    \/ \E s \in Sessions : VerifyLoad(s)
    \/ \E s \in Sessions : VerifyCommit(s)
    \/ \E s \in Sessions, e \in Emails : ForgotLookup(s, e)
    \/ \E s \in Sessions : ForgotSelect(s)
    \/ \E s \in Sessions, d \in BOOLEAN : ForgotCommit(s, d)
    \/ \E s \in Sessions : ForgotFails(s)
    \/ \E e \in Emails, p \in Passwords : Login(e, p)
    \/ \E tk \in Presentable : Refresh(tk)
    \/ \E tk \in Presentable : Deactivate(tk)
    \/ \E tk \in Presentable : Logout(tk)
    \/ \E tk \in Presentable, d \in BOOLEAN : SendVerification(tk, d)
    \/ \E tk \in Presentable, c \in Passwords, n \in Passwords \cup WeakPasswords :
          ChangePassword(tk, c, n)

Spec == Init /\ [][Next]_vars

\* ------------------------------------------- the single-use token store
\* a registered user as register leaves it, then possibly deactivated
Registered(email, pw, active) ==
    [NewUser(email, pw) EXCEPT !.has_profile = TRUE, !.is_active = active]

\* one registered, active account
InitTokens ==
    /\ now = 0
    /\ tz = 0
    /\ users = <<Registered("ann@x.io", PwOne, TRUE)>>
    /\ tokens = <<>>
    /\ minted = 0
    /\ sess = [s \in Sessions |-> Idle]
    /\ held = NoPair
    /\ last = NoLast
    /\ redeemed = {}
    /\ undelivered = {}

NextTokens ==
    \/ Tick
    \/ \E s \in Sessions, v \in TokenInputs, p \in {PwTwo, PwShort} : ResetFind(s, v, p)
    \/ \E s \in Sessions : ResetLoad(s)
    \/ \E s \in Sessions : ResetCommit(s)
    \/ \E s \in Sessions, v \in TokenInputs : VerifyFind(s, v)
    \/ \E s \in Sessions : VerifyLoad(s)
    \/ \E s \in Sessions : VerifyCommit(s)
    \/ \E s \in Sessions, e \in Emails : ForgotLookup(s, e)
    \/ \E s \in Sessions : ForgotSelect(s)
    \/ \E s \in Sessions : ForgotCommit(s, TRUE)
    \/ \E u \in 1..MaxUsers : SendVerificationAs(u, TRUE)

SpecTokens == InitTokens /\ [][NextTokens]_vars

\* ----------------------------------------------------- the bearer tokens
\* two registered, active accounts; the server's time zone is not known
InitBearer ==
    /\ now = 0
    /\ tz \in TzOffsets
    /\ users = <<Registered("ann@x.io", PwOne, TRUE), Registered("bob@x.io", PwTwo, TRUE)>>
    /\ tokens = <<>>
    /\ minted = 0
    /\ sess = [s \in Sessions |-> Idle]
    /\ held = NoPair
    /\ last = NoLast
    /\ redeemed = {}
    /\ undelivered = {}

NextBearer ==
    \/ Tick
    \/ \E e \in Emails, p \in Passwords : Login(e, p)
    \/ \E tk \in Presentable : Refresh(tk)
    \/ \E tk \in Presentable : Deactivate(tk)

SpecBearer == InitBearer /\ [][NextBearer]_vars

\* ------------------------------------------------------------ registration
\* the empty database of a server whose local time is UTC
InitRegister ==
    /\ now = 0
    /\ tz = 0
    /\ users = <<>>
    /\ tokens = <<>>
    /\ minted = 0
    /\ sess = [s \in Sessions |-> Idle]
    /\ held = NoPair
    /\ last = NoLast
    /\ redeemed = {}
    /\ undelivered = {}

NextRegister ==
    \/ \E s \in Sessions, e \in {"ann@x.io", "Ann@x.io", "bob@x.io"},
          p \in {PwOne} \cup WeakPasswords :
          RegisterCheck(s, e, p)
    \/ \E s \in Sessions : RegisterInsert(s)
    \/ \E s \in Sessions : RegisterProfile(s)
    \/ \E s \in Sessions : RegisterProfileFails(s)

SpecRegister == InitRegister /\ [][NextRegister]_vars

\* -------------------------------------------------------- change-password
\* two registered, active accounts on a server whose local time is UTC
InitPassword ==
    /\ now = 0
    /\ tz = 0
    /\ users = <<Registered("ann@x.io", PwOne, TRUE), Registered("bob@x.io", PwTwo, TRUE)>>
    /\ tokens = <<>>
    /\ minted = 0
    /\ sess = [s \in Sessions |-> Idle]
    /\ held = NoPair
    /\ last = NoLast
    /\ redeemed = {}
    /\ undelivered = {}

NextPassword ==
    \/ Tick
    \/ \E e \in Emails, p \in Passwords : Login(e, p)
    \/ \E tk \in Presentable, c \in {PwOne, PwTwo}, n \in {PwOne, PwTwo, PwNoDigit} :
          ChangePassword(tk, c, n)

SpecPassword == InitPassword /\ [][NextPassword]_vars

\* ------------------------------------------------------ a malformed digest
\* ann registered; bob's row carries a digest that is no bcrypt hash, and the
\* client holds a pair issued to bob
InitDigest ==
    /\ now = 0
    /\ tz = 0
    /\ users = <<Registered("ann@x.io", PwOne, TRUE),
                 [Registered("bob@x.io", PwTwo, TRUE) EXCEPT !.hashed_password = Unhashed]>>
    /\ tokens = <<>>
    /\ minted = 0
    /\ sess = [s \in Sessions |-> Idle]
    /\ held = IssuePair(2)
    /\ last = NoLast
    /\ redeemed = {}
    /\ undelivered = {}

NextDigest ==
    \/ Tick
    \/ \E e \in Emails, p \in Passwords : Login(e, p)
    \/ \E tk \in Presentable, c \in {PwOne, PwTwo}, n \in {PwOne, PwTwo} :
          ChangePassword(tk, c, n)

SpecDigest == InitDigest /\ [][NextDigest]_vars

\* --------------------------------------------------- failing collaborators
\* an active account and a deactivated one
InitFaults ==
    /\ now = 0
    /\ tz = 0
    /\ users = <<Registered("ann@x.io", PwOne, TRUE), Registered("bob@x.io", PwTwo, FALSE)>>
    /\ tokens = <<>>
    /\ minted = 0
    /\ sess = [s \in Sessions |-> Idle]
    /\ held = NoPair
    /\ last = NoLast
    /\ redeemed = {}
    /\ undelivered = {}

\* one request at a time; the e-mail may fail to go out and the database may
\* raise in forgot-password
NextFaults ==
    \/ Tick
    \/ \E u \in 1..MaxUsers, d \in BOOLEAN : SendVerificationAs(u, d)
    \/ \E v \in TokenInputs : VerifyFind("s1", v)
    \/ VerifyLoad("s1")
    \/ VerifyCommit("s1")
    \/ \E e \in Emails : ForgotLookup("s1", e)
    \/ ForgotSelect("s1")
    \/ \E d \in BOOLEAN : ForgotCommit("s1", d)
    \/ ForgotFails("s1")
    \/ \E v \in TokenInputs : ResetFind("s1", v, PwTwo)
    \/ ResetLoad("s1")
    \/ ResetCommit("s1")

SpecFaults == InitFaults /\ [][NextFaults]_vars

\* ------------------------------------------- reset-password and the policy
\* one registered, active account that has asked for a reset at time 0
InitReset ==
    /\ now = 0
    /\ tz = 0
    /\ users = <<Registered("ann@x.io", PwOne, TRUE)>>
    /\ tokens = <<create_reset_token(1, 1, 0)>>
    /\ minted = 1
    /\ sess = [s \in Sessions |-> Idle]
    /\ held = NoPair
    /\ last = NoLast
    /\ redeemed = {}
    /\ undelivered = {}

NextReset ==
    \/ Tick
    \/ \E s \in Sessions, v \in TokenInputs, p \in {PwTwo} \cup WeakPasswords :
          ResetFind(s, v, p)
    \/ \E s \in Sessions : ResetLoad(s)
    \/ \E s \in Sessions : ResetCommit(s)

SpecReset == InitReset /\ [][NextReset]_vars

\* ------------------------------------------------- one token of each kind
\* one registered, active, unverified account that has asked for a reset and
\* for a verification e-mail at time 0
InitKinds ==
    /\ now = 0
    /\ tz = 0
    /\ users = <<Registered("ann@x.io", PwOne, TRUE)>>
    /\ tokens = <<create_reset_token(1, 1, 0), create_verification_token(1, 2, 0)>>
    /\ minted = 2
    /\ sess = [s \in Sessions |-> Idle]
    /\ held = NoPair
    /\ last = NoLast
    /\ redeemed = {}
    /\ undelivered = {}

\* the caller presents only values that were mailed out
NextKinds ==
    \/ Tick
    \/ \E s \in Sessions, v \in TokenInputs \ {0}, p \in {PwTwo, PwShort} :
          ResetFind(s, v, p)
    \/ \E s \in Sessions : ResetLoad(s)
    \/ \E s \in Sessions : ResetCommit(s)
    \/ \E s \in Sessions, v \in TokenInputs \ {0} : VerifyFind(s, v)
    \/ \E s \in Sessions : VerifyLoad(s)
    \/ \E s \in Sessions : VerifyCommit(s)

SpecKinds == InitKinds /\ [][NextKinds]_vars

\* ------------------------------------------------ two accounts, one token
\* two registered, active accounts; one token was issued at time 0: a reset
\* token of ann, a reset token of bob, or a verification token of ann
InitFrame ==
    /\ now = 0
    /\ tz = 0
    /\ users = <<Registered("ann@x.io", PwOne, TRUE), Registered("bob@x.io", PwTwo, TRUE)>>
    /\ tokens \in {<<create_reset_token(1, 1, 0)>>,
                   <<create_reset_token(2, 1, 0)>>,
                   <<create_verification_token(1, 1, 0)>>}
    /\ minted = 1
    /\ sess = [s \in Sessions |-> Idle]
    /\ held = NoPair
    /\ last = NoLast
    /\ redeemed = {}
    /\ undelivered = {}

NextFrame ==
    \/ Tick
    \/ \E s \in Sessions, e \in Emails : ForgotLookup(s, e)
    \/ \E s \in Sessions : ForgotSelect(s)
    \/ \E s \in Sessions, d \in BOOLEAN : ForgotCommit(s, d)

SpecFrame == InitFrame /\ [][NextFrame]_vars

\* ------------------------------------------------ every operation on a hash
\* two registered, active accounts; one client calls the endpoints one
\* request at a time, logs in as ann and presents the tokens it was issued
InitHash ==
    /\ now = 0
    /\ tz = 0
    /\ users = <<Registered("ann@x.io", PwOne, TRUE), Registered("bob@x.io", PwOne, TRUE)>>
    /\ tokens = <<>>
    /\ minted = 0
    /\ sess = [s \in Sessions |-> Idle]
    /\ held = NoPair
    /\ last = NoLast
    /\ redeemed = {}
    /\ undelivered = {}

NextHash ==
    \/ (now < HashHorizon /\ Tick)
    \/ \E p \in {PwOne, PwTwo} : Login("ann@x.io", p)
    \/ \E tk \in {held.access_token, held.refresh_token} : Refresh(tk)
    \/ \E tk \in {held.access_token, held.refresh_token} : Logout(tk)
    \/ \E tk \in {held.access_token, held.refresh_token} : Deactivate(tk)
    \/ \E tk \in {held.access_token, held.refresh_token} : SendVerification(tk, TRUE)
    \/ \E tk \in {held.access_token, held.refresh_token}, c \in {PwOne, PwTwo},
          n \in {PwTwo, PwNoDigit} : ChangePassword(tk, c, n)
    \/ \E v \in TokenInputs : VerifyFind("s1", v)
    \/ VerifyLoad("s1")
    \/ VerifyCommit("s1")
    \/ \E e \in {"ann@x.io", "bob@x.io"} : ForgotLookup("s1", e)
    \/ ForgotSelect("s1")
    \/ ForgotCommit("s1", TRUE)
    \/ \E v \in TokenInputs, p \in {PwTwo, PwShort} : ResetFind("s1", v, p)
    \/ ResetLoad("s1")
    \/ ResetCommit("s1")

SpecHash == InitHash /\ [][NextHash]_vars

\* ======================================================================
\* Properties of the single-use token store, checked under SpecTokens
\* ======================================================================
Redeeming == {"reset_password", "verify_email"}

Short(rec) == rec.op = "reset_password" /\ Len(rec.pw) < 8

\* the rows that are PASSWORD_RESET tokens of user u and valid at time t
ActiveResets(u, t) ==
    {i \in 1..Len(tokens) :
        /\ tokens[i].user_id = u
        /\ tokens[i].token_type = "PASSWORD_RESET"
        /\ tokens[i].used_at = <<>>
        /\ t < tokens[i].expires_at}

\* C1: of the reset-password calls made with one valid token exactly one
\* succeeds: when a call returns success, no other call has returned success
\* with that token before it.
C1_OnlyOneResetSucceeds ==
    [][\A s \in Sessions :
          (/\ sess[s].op = "reset_password" /\ sess[s].pc = "commit"
           /\ sess'[s].pc = "done" /\ sess'[s].result = "ok")
          => sess[s].token \notin redeemed]_vars

\* C2 as amended: a redemption that arrives after a successful redemption of
\* the same token value never succeeds: it returns InvalidOrExpiredToken, or
\* WeakPassword when it is a reset-password with a new password of fewer than
\* 8 characters; and a redemption that arrives while the token is valid (with
\* a new password of at least 8 characters) succeeds.
C2_RedeemOnce ==
    \A s \in Sessions :
        (sess[s].pc = "done" /\ sess[s].op \in Redeeming) =>
            /\ sess[s].late =>
                  sess[s].result = IF Short(sess[s]) THEN "WeakPassword"
                                   ELSE "InvalidOrExpiredToken"
            /\ (~sess[s].stale /\ ~Short(sess[s])) => sess[s].result = "ok"

\* both kinds of token have been redeemed and presented once more
C2_Witness ==
    /\ sess["s1"].pc = "done" /\ sess["s1"].op = "reset_password"
    /\ sess["s1"].late /\ sess["s1"].result = "InvalidOrExpiredToken"
    /\ sess["s2"].pc = "done" /\ sess["s2"].op = "verify_email"
    /\ sess["s2"].late /\ sess["s2"].result = "InvalidOrExpiredToken"

\* C2 as stated: every redemption that arrives after a successful one
\* returns InvalidOrExpiredToken.
C2_LaterCallInvalid ==
    \A s \in Sessions :
        (sess[s].pc = "done" /\ sess[s].op \in Redeeming /\ sess[s].late)
            => sess[s].result = "InvalidOrExpiredToken"

\* C3: every user has at most one active (unused, unexpired) PASSWORD_RESET
\* token.
C3_AtMostOneActiveReset ==
    \A u \in 1..Len(users) : Cardinality(ActiveResets(u, now)) <= 1

\* C4: once a PASSWORD_RESET token has been issued to a user, every
\* PASSWORD_RESET token issued to that user before it is marked used.
C4_EarlierResetsUsed ==
    \A i, j \in 1..Len(tokens) :
        (/\ i < j
         /\ tokens[i].token_type = "PASSWORD_RESET"
         /\ tokens[j].token_type = "PASSWORD_RESET"
         /\ tokens[i].user_id = tokens[j].user_id)
        => tokens[i].used_at # <<>>

\* C5 as amended: a reset-password call whose token is expired, used or
\* unknown when it arrives returns at once, changes neither table, and
\* returns InvalidOrExpiredToken when the new password has at least 8
\* characters and WeakPassword when it has fewer.
C5_InvalidTokenRejected ==
    [][\A s \in Sessions :
          (/\ sess'[s] # sess[s]
           /\ sess'[s].op = "reset_password"
           /\ sess'[s].stale)
          => (/\ sess'[s].pc = "done"
              /\ sess'[s].result = IF Len(sess'[s].pw) < 8 THEN "WeakPassword"
                                   ELSE "InvalidOrExpiredToken"
              /\ users' = users
              /\ tokens' = tokens)]_vars

\* a call with an expired, unused reset token has been turned away
C5_Witness ==
    \E s \in Sessions, i \in 1..Len(tokens) :
        /\ sess[s].pc = "done" /\ sess[s].op = "reset_password"
        /\ sess[s].stale /\ ~sess[s].late
        /\ sess[s].result = "InvalidOrExpiredToken"
        /\ tokens[i].token_type = "PASSWORD_RESET"
        /\ tokens[i].used_at = <<>>
        /\ ~(now < tokens[i].expires_at)
        /\ \A j \in 1..Len(tokens) : j = i

\* C5 as stated: a reset-password call whose token is expired, used or
\* unknown returns InvalidOrExpiredToken and changes neither table.
C5_AlwaysInvalidOrExpired ==
    [][\A s \in Sessions :
          (/\ sess'[s] # sess[s]
           /\ sess'[s].op = "reset_password"
           /\ sess'[s].stale)
          => (/\ sess'[s].pc = "done"
              /\ sess'[s].result = "InvalidOrExpiredToken"
              /\ users' = users
              /\ tokens' = tokens)]_vars

\* C13: a verify-email call that arrives with a missing, used or expired
\* token returns InvalidOrExpiredToken at once and changes neither table; one
\* that arrives with a valid token goes on, and its commit sets is_verified
\* of the user that owns the token and marks the token used in one step; and
\* no step sets is_verified without consuming a verification token of that
\* user, or consumes a verification token without setting is_verified.
C13_VerifySetsAndConsumes ==
    [][/\ \A s \in Sessions :
            /\ (Free(s) /\ sess'[s] # sess[s] /\ sess'[s].op = "verify_email") =>
                  IF sess'[s].stale
                  THEN /\ sess'[s].pc = "done"
                       /\ sess'[s].result = "InvalidOrExpiredToken"
                       /\ users' = users /\ tokens' = tokens
                  ELSE sess'[s].pc = "load"
            /\ (sess[s].op = "verify_email" /\ sess[s].pc = "commit" /\ sess'[s] # sess[s]) =>
                  /\ sess'[s].result = "ok"
                  /\ sess[s].uid = tokens[sess[s].ix].user_id
                  /\ users'[sess[s].uid].is_verified
                  /\ tokens'[sess[s].ix].used_at # <<>>
       /\ \A u \in 1..Len(users) :
            (~users[u].is_verified /\ users'[u].is_verified) =>
                \E i \in 1..Len(tokens) :
                    /\ tokens[i].token_type = "EMAIL_VERIFICATION"
                    /\ tokens[i].user_id = u
                    /\ tokens'[i].used_at # <<>>
       /\ \A i \in 1..Len(tokens) :
            (/\ tokens[i].token_type = "EMAIL_VERIFICATION"
             /\ tokens[i].used_at = <<>> /\ tokens'[i].used_at # <<>>)
            => users'[tokens[i].user_id].is_verified]_vars

\* one token was redeemed and verified its owner, an expired one was refused
C13_Witness ==
    /\ sess["s1"].op = "verify_email" /\ sess["s1"].pc = "done"
    /\ sess["s1"].result = "ok"
    /\ users[1].is_verified
    /\ sess["s2"].op = "verify_email" /\ sess["s2"].pc = "done"
    /\ sess["s2"].stale /\ ~sess["s2"].late
    /\ sess["s2"].result = "InvalidOrExpiredToken"
    /\ \E i \in 1..Len(tokens) :
          /\ tokens[i].token_type = "EMAIL_VERIFICATION"
          /\ tokens[i].used_at = <<>>
          /\ ~(now < tokens[i].expires_at)

\* ======================================================================
\* Properties of login, refresh and the bearer tokens, under SpecBearer
\* ======================================================================
\* the accounts registered under an address, compared in lower case
Accounts(email) == {i \in 1..Len(users) : users[i].email = Lower(email)}

\* the server signed exactly these claims
ServerSigned(tk) == tk.sig.key = SECRET_KEY /\ tk.sig.over = tk.claims

\* the subject of the token is a registered, active account
SubjectActive(tk) ==
    /\ tk.claims.user_id \in 1..Len(users)
    /\ users[tk.claims.user_id].is_active

Unauthorized(detail) == Resp(401, detail)

NothingIssued(r) == r.access_token = NoJwt /\ r.refresh_token = NoJwt

\* C6: login with an unknown address, an inactive account or a wrong password
\* ends in one and the same response, 401 "Incorrect email or password", and
\* issues no token; every other login succeeds.
C6_LoginFailuresCollapse ==
    [][\A e \in Emails, p \in Passwords :
          Login(e, p) =>
              IF \/ Accounts(e) = {}
                 \/ \E i \in Accounts(e) : ~users[i].is_active
                 \/ \E i \in Accounts(e) :
                        users[i].hashed_password.of # p
              THEN /\ last'.outcome = Unauthorized("Incorrect email or password")
                   /\ NothingIssued(last')
                   /\ held' = held
                   /\ users' = users
              ELSE /\ last'.outcome.status = 200
                   /\ ~NothingIssued(last')]_vars

\* a wrong password on a deactivated account got the common response
C6_Witness ==
    /\ last.op = "login"
    /\ last.outcome = Unauthorized("Incorrect email or password")
    /\ \E i \in Accounts(last.email) :
          ~users[i].is_active /\ users[i].hashed_password.of # last.password

\* C7: refresh issues a new pair when the presented token is signed by the
\* server, has type refresh, is unexpired (now < expires_at) and names a
\* registered, active account; it answers 401 and issues nothing when the
\* signature or the type is wrong, the expiry is past, or the account is
\* missing or inactive.  (The instant now = expires_at is the subject of C9.)
C7_RefreshIffValid ==
    [][\A tk \in Presentable :
          Refresh(tk) =>
              /\ (/\ ServerSigned(tk)
                  /\ tk.claims.type = "refresh_token"
                  /\ now < tk.claims.exp
                  /\ SubjectActive(tk))
                 => (last'.outcome.status = 200 /\ ~NothingIssued(last'))
              /\ (\/ ~ServerSigned(tk)
                  \/ tk.claims.type # "refresh_token"
                  \/ tk.claims.exp < now
                  \/ ~SubjectActive(tk))
                 => (/\ last'.outcome = Unauthorized("Invalid refresh token")
                     /\ NothingIssued(last'))]_vars

\* C8: a server-signed access token is refused where a refresh token is
\* expected, and a server-signed refresh token is refused where an access
\* token is expected.
C8_KindsNotInterchangeable ==
    [][\A tk \in Presentable :
          /\ (Refresh(tk) /\ ServerSigned(tk) /\ tk.claims.type = "access_token")
                => (last'.outcome.status = 401 /\ NothingIssued(last') /\ held' = held)
          /\ (Deactivate(tk) /\ ServerSigned(tk) /\ tk.claims.type = "refresh_token")
                => (last'.outcome.status = 401 /\ users' = users)]_vars

\* an unexpired access token of an active account was refused by refresh
C8_Witness ==
    /\ last.op = "refresh"
    /\ last.outcome.status = 401
    /\ ServerSigned(last.presented)
    /\ last.presented.claims.type = "access_token"
    /\ now < last.presented.claims.exp
    /\ SubjectActive(last.presented)

\* C9: a server-signed token of the expected kind is refused at every time
\* now >= expires_at, the instant of expiry included, and time never goes
\* back, so a token refused for expiry stays refused.
C9_RefusedFromExpiry ==
    [][/\ now' >= now
       /\ \A tk \in Presentable :
          /\ (/\ Refresh(tk) /\ ServerSigned(tk)
               /\ tk.claims.type = "refresh_token" /\ tk.claims.exp <= now)
                => (last'.outcome.status = 401 /\ NothingIssued(last'))
          /\ (/\ Deactivate(tk) /\ ServerSigned(tk)
               /\ tk.claims.type = "access_token" /\ tk.claims.exp <= now)
                => (last'.outcome.status = 401 /\ users' = users)]_vars

\* C19: a request to a protected endpoint (deactivate) is carried out as user
\* U only with a server-signed, unexpired (now < expires_at) access token
\* whose user_id is U, U being registered and active; with no token, any
\* other token, or a missing or inactive user it is answered 401 and nothing
\* is changed.
C19_AuthenticatedOnlyWithValidToken ==
    [][\A tk \in {last'.presented} :
          (last'.op = "deactivate" /\ Deactivate(tk)) =>
              IF /\ ServerSigned(tk)
                 /\ tk.claims.type = "access_token"
                 /\ now < tk.claims.exp
                 /\ SubjectActive(tk)
              THEN last'.outcome.status = 200 =>
                      /\ last'.uid = tk.claims.user_id
                      /\ \A u \in 1..Len(users) :
                            u # tk.claims.user_id => users'[u] = users[u]
              ELSE /\ last'.outcome.status = 401
                   /\ users' = users]_vars

C10_RegisterOnceOrDuplicate ==
    [][\A s \in Sessions :
          /\ \A e \in Emails, p \in Passwords :
                (RegisterCheck(s, e, p) /\ validate_password(p)) =>
                    /\ users' = users
                    /\ IF Accounts(e) = {}
                       THEN sess'[s].pc = "insert"
                       ELSE sess'[s].pc = "done" /\ sess'[s].result = "DuplicateEmail"
          /\ RegisterInsert(s) =>
                /\ Len(users') = Len(users) + 1
                /\ \A i \in 1..Len(users) : users'[i] = users[i]
                /\ users'[Len(users')].email = Lower(sess[s].email)
                /\ users'[Len(users')].hashed_password.of = sess[s].pw
                /\ ~users'[Len(users')].is_verified
                /\ users'[Len(users')].is_active
          /\ RegisterProfile(s) =>
                /\ users'[sess[s].uid].has_profile
                /\ sess'[s].result = "created"
                /\ Len(users') = Len(users)]_vars

\* C18: register writes the user row and its profile together or not at
\* all: every user row has its profile, or belongs to a register call that is
\* still between the two; a register call that has failed leaves no row.
C18_RegisterAllOrNothing ==
    \A i \in 1..Len(users) :
        \/ users[i].has_profile
        \/ \E s \in Sessions :
              sess[s].op = "register" /\ sess[s].pc = "profile" /\ sess[s].uid = i

\* the password strength policy, read off the characters
MeetsPolicy(p) ==
    /\ Len(p) >= 8
    /\ {i \in 1..Len(p) : p[i] \in UpperChars} # {}
    /\ {i \in 1..Len(p) : p[i] \in LowerChars} # {}
    /\ {i \in 1..Len(p) : p[i] \in DigitChars} # {}

\* C11: register turns a password away exactly when it is shorter than 8
\* characters or lacks an uppercase letter, a lowercase letter or a digit;
\* the check changes no table, and a user row is only ever written, with its
\* hash, for a password that meets all four conditions.
C11_PolicyDecidesRegister ==
    [][\A s \in Sessions :
          /\ (Free(s) /\ sess'[s] # sess[s] /\ sess'[s].op = "register") =>
                /\ users' = users
                /\ (sess'[s].result = "ValidationError") <=> ~MeetsPolicy(sess'[s].pw)
          /\ (sess[s].op = "register" /\ sess[s].pc = "insert" /\ sess'[s] # sess[s]) =>
                /\ MeetsPolicy(sess[s].pw)
                /\ users'[Len(users')].hashed_password = get_password_hash(sess[s].pw)
          /\ \A i \in 1..Len(users) :
                users'[i].hashed_password = users[i].hashed_password]_vars

\* a password failing one condition only was turned away, a good one went through
C11_Witness ==
    /\ sess["s1"].op = "register" /\ sess["s1"].pc = "done"
    /\ sess["s1"].pw = PwNoDigit /\ sess["s1"].result = "ValidationError"
    /\ sess["s2"].op = "register" /\ sess["s2"].pc = "done"
    /\ sess["s2"].pw = PwOne /\ sess["s2"].result = "created"
    /\ Len(users) = 1

\* ======================================================================
\* Properties of reset-password and the strength policy, under SpecReset
\* ======================================================================
\* C12: a reset-password call that arrives with a valid token and a new
\* password that is shorter than 8 characters or lacks an uppercase letter, a
\* lowercase letter or a digit ends in WeakPassword, and no stored hash is
\* ever the hash of such a password.
C12_ResetEnforcesPolicy ==
    /\ \A s \in Sessions :
          (/\ sess[s].op = "reset_password" /\ sess[s].pc = "done"
           /\ ~sess[s].stale /\ ~MeetsPolicy(sess[s].pw))
          => sess[s].result = "WeakPassword"
    /\ \A i \in 1..Len(users) : MeetsPolicy(users[i].hashed_password.of)

\* ======================================================================
\* Properties that involve the e-mail collaborator, under SpecFaults
\* ======================================================================
\* C14: send-verification for a verified user answers success and changes
\* nothing, whether or not the mail collaborator would deliver (it is not
\* asked); for an unverified user it adds exactly one EMAIL_VERIFICATION
\* token of that user and changes nothing else in the tables.
C14_SendVerificationNoOp ==
    [][\A u \in 1..Len(users), d \in BOOLEAN :
          SendVerificationAs(u, d) =>
              IF users[u].is_verified
              THEN /\ last'.outcome = Resp(200, "Verification email sent successfully")
                   /\ UNCHANGED <<users, tokens, minted, undelivered>>
              ELSE /\ users' = users
                   /\ Len(tokens') = Len(tokens) + 1
                   /\ \A i \in 1..Len(tokens) : tokens'[i] = tokens[i]
                   /\ tokens'[Len(tokens')].token_type = "EMAIL_VERIFICATION"
                   /\ tokens'[Len(tokens')].user_id = u
                   /\ tokens'[Len(tokens')].used_at = <<>>]_vars

\* the one token ever issued went out with a failed e-mail and verified the
\* user; the send-verification that succeeded afterwards created nothing
C14_Witness ==
    /\ users[1].is_verified
    /\ Len(tokens) = 1
    /\ undelivered = {tokens[1].token}
    /\ last.op = "send_verification" /\ last.uid = 1
    /\ last.outcome = Resp(200, "Verification email sent successfully")

\* C15: every forgot-password request ends in the one fixed result, whatever
\* the address (registered, unknown, deactivated), whether or not the e-mail
\* goes out and whether or not the database raises, and it leaves nothing
\* else for the caller to see.
C15_ForgotAlwaysSameResult ==
    [][\A s \in Sessions :
          (/\ sess'[s] # sess[s]
           /\ sess'[s].op = "forgot_password"
           /\ sess'[s].pc = "done")
          => (/\ sess'[s].result = "sent-if-exists"
              /\ sess'[s] = Done([Idle EXCEPT !.op = "forgot_password",
                                                  !.email = sess'[s].email],
                                    "sent-if-exists")
              /\ last' = last)]_vars

\* a request whose commit raised (a token value was generated, no row was
\* stored) has returned like every other
C15_Witness ==
    /\ sess["s1"].op = "forgot_password" /\ sess["s1"].pc = "done"
    /\ sess["s1"].result = "sent-if-exists"
    /\ minted = 1
    /\ tokens = <<>>

\* C16: when the e-mail of send-verification or forgot-password fails, the
\* token that call created is stored, unused, with its expiry; it is never
\* removed afterwards; and a redemption that arrives with it while it is
\* unused and unexpired goes through and succeeds.
C16_TokenSurvivesMailFailure ==
    [][/\ \A u \in 1..Len(users) :
            (SendVerificationAs(u, FALSE) /\ ~users[u].is_verified) =>
                /\ Len(tokens') = Len(tokens) + 1
                /\ tokens'[Len(tokens')] = create_verification_token(u, minted + 1, now)
                /\ minted + 1 \in undelivered'
       /\ \A s \in Sessions :
            ForgotCommit(s, FALSE) =>
                /\ Len(tokens') = Len(tokens) + 1
                /\ tokens'[Len(tokens')] = sess[s].row
                /\ sess[s].row.used_at = <<>>
                /\ sess[s].row.token \in undelivered'
       /\ \A v \in undelivered :
            /\ \E i \in 1..Len(tokens') : tokens'[i].token = v
            /\ \A s \in Sessions :
                /\ (VerifyFind(s, v) /\ ~Stale(v, "EMAIL_VERIFICATION"))
                        => sess'[s].pc = "load"
                /\ (ResetFind(s, v, PwTwo) /\ ~Stale(v, "PASSWORD_RESET"))
                        => sess'[s].pc = "load"
                /\ (/\ sess[s].op \in Redeeming /\ sess[s].pc = "commit"
                     /\ sess[s].token = v /\ sess'[s] # sess[s])
                        => (sess'[s].result = "ok" /\ v \in redeemed')]_vars

\* a verification token and a reset token whose e-mails both failed have
\* both been redeemed
C16_Witness ==
    /\ Len(tokens) = 2
    /\ {tokens[1].token_type, tokens[2].token_type} = {"EMAIL_VERIFICATION", "PASSWORD_RESET"}
    /\ undelivered = {tokens[1].token, tokens[2].token}
    /\ redeemed = undelivered
    /\ users[1].is_verified
    /\ users[1].hashed_password = get_password_hash(PwTwo)

C21_UsedAtOneWay ==
    [][\A i \in 1..Len(tokens) :
          tokens[i].used_at # <<>> =>
              /\ Len(tokens') >= i
              /\ tokens'[i].token = tokens[i].token
              /\ tokens'[i].used_at # <<>>
              /\ ~is_valid(tokens'[i], now')]_vars

\* one token was marked used by a later forgot-password, the other by its
\* redemption, and a request after that has committed
C21_Witness ==
    /\ Len(tokens) = 2
    /\ tokens[1].used_at # <<>> /\ tokens[1].token \notin redeemed
    /\ tokens[2].used_at # <<>> /\ tokens[2].token \in redeemed
    /\ \E s \in Sessions :
          /\ sess[s].pc = "done" /\ sess[s].op \in Redeeming
          /\ sess[s].late /\ sess[s].result = "InvalidOrExpiredToken"

\* ------------------------------------------------------------------ C22
\* the address belongs to no user, or only to deactivated ones
NoActiveAccount(email) == \A i \in Accounts(email) : ~users[i].is_active

\* C22: a forgot-password for an address with no user or with an inactive
\* user ends in its first step and changes no persisted state: no token value
\* is generated, no row is created or marked used, no user row changes and
\* nothing is handed to the e-mail collaborator.
C22_ForgotUnknownChangesNothing ==
    [][\A s \in Sessions :
          (/\ Free(s) /\ sess'[s] # sess[s]
           /\ sess'[s].op = "forgot_password"
           /\ NoActiveAccount(sess'[s].email)) =>
              /\ sess'[s].pc = "done"
              /\ sess'[s].result = "sent-if-exists"
              /\ UNCHANGED <<users, tokens, minted, redeemed, undelivered>>]_vars

\* a forgot-password for the deactivated account has returned while a reset
\* token of the active account stays unused
C22_Witness ==
    /\ \E s \in Sessions :
          /\ sess[s].op = "forgot_password" /\ sess[s].pc = "done"
          /\ Accounts(sess[s].email) # {}
          /\ NoActiveAccount(sess[s].email)
    /\ Len(tokens) = 1 /\ minted = 1
    /\ tokens[1].token_type = "PASSWORD_RESET" /\ tokens[1].used_at = <<>>

\* ------------------------------------------------------------------ C23
\* C23: EMAIL_VERIFICATION tokens are not pruned.  A send-verification leaves
\* every row already in the table as it was, so each earlier token of the
\* user that was unused and unexpired still is; a verify-email that arrives
\* with any unused, unexpired verification token succeeds, however many
\* others the user has and whether or not the user is verified already; and
\* its commit marks only the row it redeemed.
C23_VerificationTokensNotPruned ==
    [][/\ (last' # last /\ last'.op = "send_verification") =>
              /\ Len(tokens') >= Len(tokens)
              /\ \A i \in 1..Len(tokens) : tokens'[i] = tokens[i]
       /\ \A s \in Sessions :
              /\ (/\ sess'[s] # sess[s]
                  /\ sess'[s].op = "verify_email" /\ sess'[s].pc = "done"
                  /\ ~sess'[s].stale) => sess'[s].result = "ok"
              /\ (/\ sess[s].op = "verify_email" /\ sess[s].pc = "commit"
                  /\ sess'[s].pc = "done") =>
                     \A i \in 1..Len(tokens) :
                         i # sess[s].ix => tokens'[i] = tokens[i]]_vars

\* the user asked for two verification e-mails and has redeemed both tokens
C23_Witness ==
    /\ Len(tokens) = 2
    /\ \A i \in 1..2 :
          /\ tokens[i].token_type = "EMAIL_VERIFICATION"
          /\ tokens[i].user_id = 1
          /\ tokens[i].token \in redeemed
    /\ users[1].is_verified

\* ------------------------------------------------------------------ C24
\* C24: credential verification never raises.  When the stored digest of the
\* account is not a recognisable hash, a login for that account ends in
\* 401 "Incorrect email or password" and a change-password by that account
\* in 400 "Invalid current password or password change failed"; neither
\* ends in an unhandled error.
C24_MalformedDigestIsAMismatch ==
    /\ (/\ last.op = "login"
        /\ \E i \in Accounts(last.email) :
              users[i].is_active /\ ~Identified(users[i].hashed_password))
          => last.outcome = Resp(401, "Incorrect email or password")
    /\ (/\ last.op = "change_password" /\ last.uid # 0
        /\ last.outcome.status # 422
        /\ ~Identified(users[last.uid].hashed_password))
          => last.outcome =
                Resp(400, "Invalid current password or password change failed")

\* ------------------------------------------------------------------ C25
\* the value names an unused, unexpired row of that kind
ValidAs(value, kind) ==
    \E i \in 1..Len(tokens) :
        /\ tokens[i].token = value
        /\ tokens[i].token_type = kind
        /\ is_valid(tokens[i], now)

\* C25 as amended: tokens are looked up by value and kind.  A reset-password
\* that presents the value of a valid EMAIL_VERIFICATION token returns at
\* once and changes neither table, with InvalidOrExpiredToken when the new
\* password has at least 8 characters and WeakPassword when it has fewer; a
\* verify-email that presents the value of a valid PASSWORD_RESET token
\* returns InvalidOrExpiredToken at once and changes neither table.
C25_KindIsPartOfTheKey ==
    [][\A s \in Sessions, v \in TokenInputs :
          /\ (/\ ValidAs(v, "EMAIL_VERIFICATION")
              /\ \E p \in {PwTwo, PwShort} : ResetFind(s, v, p)) =>
                 /\ sess'[s].pc = "done"
                 /\ sess'[s].result = IF Short(sess'[s]) THEN "WeakPassword"
                                      ELSE "InvalidOrExpiredToken"
                 /\ UNCHANGED <<users, tokens>>
          /\ (ValidAs(v, "PASSWORD_RESET") /\ VerifyFind(s, v)) =>
                 /\ sess'[s].pc = "done"
                 /\ sess'[s].result = "InvalidOrExpiredToken"
                 /\ UNCHANGED <<users, tokens>>]_vars

\* both tokens are still unused and unexpired, and each has been presented
\* to the operation of the other kind and turned away
C25_Witness ==
    /\ \A i \in 1..Len(tokens) : is_valid(tokens[i], now)
    /\ sess["s1"].op = "reset_password" /\ sess["s1"].pc = "done"
    /\ sess["s1"].stale /\ sess["s1"].result = "InvalidOrExpiredToken"
    /\ sess["s2"].op = "verify_email" /\ sess["s2"].pc = "done"
    /\ sess["s2"].stale /\ sess["s2"].result = "InvalidOrExpiredToken"
    /\ users[1].hashed_password = get_password_hash(PwOne)
    /\ ~users[1].is_verified

\* C25 as stated: a reset-password that presents the value of a valid
\* EMAIL_VERIFICATION token returns InvalidOrExpiredToken, and so does a
\* verify-email that presents the value of a valid PASSWORD_RESET token;
\* neither changes anything.
C25_WrongKindInvalidOrExpired ==
    [][\A s \in Sessions, v \in TokenInputs :
          /\ (/\ ValidAs(v, "EMAIL_VERIFICATION")
              /\ \E p \in {PwTwo, PwShort} : ResetFind(s, v, p)) =>
                 /\ sess'[s].pc = "done"
                 /\ sess'[s].result = "InvalidOrExpiredToken"
                 /\ UNCHANGED <<users, tokens>>
          /\ (ValidAs(v, "PASSWORD_RESET") /\ VerifyFind(s, v)) =>
                 /\ sess'[s].pc = "done"
                 /\ sess'[s].result = "InvalidOrExpiredToken"
                 /\ UNCHANGED <<users, tokens>>]_vars

\* ------------------------------------------------------------------ C26
\* C26: a forgot-password for user U modifies only U's PASSWORD_RESET
\* tokens.  In every step of such a request no user row changes (hash,
\* is_verified, is_active), every token row of another user and every
\* EMAIL_VERIFICATION row of U stays as it was, and a row it adds is a
\* PASSWORD_RESET row of U.
C26_ForgotTouchesOwnResetsOnly ==
    [][\A s \in Sessions :
          (sess'[s] # sess[s] /\ sess'[s].op = "forgot_password") =>
              LET U == Accounts(sess'[s].email)
              IN  /\ users' = users
                  /\ Len(tokens') >= Len(tokens)
                  /\ \A i \in 1..Len(tokens) :
                        \/ tokens'[i] = tokens[i]
                        \/ /\ tokens[i].user_id \in U
                           /\ tokens[i].token_type = "PASSWORD_RESET"
                           /\ tokens'[i].user_id = tokens[i].user_id
                           /\ tokens'[i].token_type = "PASSWORD_RESET"
                  /\ \A i \in (Len(tokens) + 1)..Len(tokens') :
                        /\ tokens'[i].user_id \in U
                        /\ tokens'[i].token_type = "PASSWORD_RESET"]_vars

\* ann's forgot-password has committed and stored her token; the token that
\* was there before, bob's reset token or her own verification token, is as
\* it was issued
C26_Witness ==
    /\ Len(tokens) = 2
    /\ tokens[1] \in {create_reset_token(2, 1, 0), create_verification_token(1, 1, 0)}
    /\ tokens[2].user_id = 1 /\ tokens[2].token_type = "PASSWORD_RESET"
    /\ \E s \in Sessions :
          /\ sess[s].op = "forgot_password" /\ sess[s].pc = "done"
          /\ Lower(sess[s].email) = "ann@x.io"

\* ------------------------------------------------------------------ C27
\* C27: in every reachable state no two user rows carry the same lower-cased
\* e-mail address, whether the register calls for it ran one after the other
\* or raced, and whether or not they spelled it in the same case.
C27_EmailsUnique ==
    \A i, j \in 1..Len(users) :
        Lower(users[i].email) = Lower(users[j].email) => i = j

\* ------------------------------------------------------------------ C28
\* C28: no password change is committed on the strength of a token that is
\* already marked used at commit time.  When a reset-password call has read
\* its token as valid and a forgot-password for the same user commits before
\* it (marking that token used and issuing a new one), the commit of the
\* reset-password call does not change the password.  The token in question
\* has not been redeemed by anyone, so what marked it used is the
\* forgot-password.
C28_NoResetOnInvalidatedToken ==
    [][\A s \in Sessions :
          (/\ sess[s].op = "reset_password" /\ sess[s].pc = "commit"
           /\ sess'[s].pc = "done"
           /\ sess[s].token \notin redeemed
           /\ tokens[sess[s].ix].used_at # <<>>) =>
              /\ sess'[s].result # "ok"
              /\ users' = users]_vars

\* ------------------------------------------------------------------ C29
\* the token names a registered account that is deactivated
SubjectDeactivated(tk) ==
    /\ tk.claims.user_id \in 1..Len(users)
    /\ ~users[tk.claims.user_id].is_active

\* C29: deactivation is final and shuts the user out.  No step sets
\* is_active of a deactivated user back to true; and once a user is
\* deactivated, a login for that user answers 401 "Incorrect email or
\* password" whatever the password, and a refresh or an authenticated request
\* that presents a token of that user answers 401 whatever the token; none of
\* them issues a token or changes a user row.
C29_DeactivatedStaysOut ==
    [][/\ \A u \in 1..Len(users) :
              ~users[u].is_active => (Len(users') >= u /\ ~users'[u].is_active)
       /\ (/\ last' # last /\ last'.op = "login"
           /\ Accounts(last'.email) # {}
           /\ \A i \in Accounts(last'.email) : ~users[i].is_active) =>
              /\ last'.outcome = Unauthorized("Incorrect email or password")
              /\ NothingIssued(last')
              /\ held' = held /\ users' = users
       /\ (/\ last' # last /\ last'.op = "refresh"
           /\ SubjectDeactivated(last'.presented)) =>
              /\ last'.outcome = Unauthorized("Invalid refresh token")
              /\ NothingIssued(last')
              /\ held' = held /\ users' = users
       /\ (/\ last' # last /\ last'.op = "deactivate"
           /\ SubjectDeactivated(last'.presented)) =>
              /\ last'.outcome = Unauthorized("Could not validate credentials")
              /\ users' = users]_vars

\* a refresh token the server issued to the user before the deactivation,
\* still unexpired, has been presented and refused
C29_Witness ==
    /\ tz = 0
    /\ last.op = "refresh"
    /\ ServerSigned(last.presented)
    /\ last.presented.claims.type = "refresh_token"
    /\ now < last.presented.claims.exp
    /\ SubjectDeactivated(last.presented)
    /\ last.outcome = Unauthorized("Invalid refresh token")

\* ------------------------------------------------------------------ C30
\* C30: a user's credential hash changes only in the commit of a successful
\* reset-password whose token belongs to that user, or in a successful
\* change-password made by that user.  Every other step (login, refresh,
\* logout, send-verification, verify-email, forgot-password, deactivate, and
\* every operation that fails) leaves every user's hash as it was.
C30_HashChangesOnlyByResetOrChange ==
    [][\A u \in 1..Len(users) :
          (Len(users') >= u
           /\ users'[u].hashed_password # users[u].hashed_password) =>
              \/ \E s \in Sessions :
                    /\ sess[s].op = "reset_password" /\ sess[s].pc = "commit"
                    /\ sess'[s].pc = "done" /\ sess'[s].result = "ok"
                    /\ tokens[sess[s].ix].token = sess[s].token
                    /\ tokens[sess[s].ix].token_type = "PASSWORD_RESET"
                    /\ tokens[sess[s].ix].user_id = u
                    /\ users'[u].hashed_password = get_password_hash(sess[s].pw)
              \/ /\ last' # last /\ last'.op = "change_password"
                 /\ last'.outcome = Resp(200, "Password changed successfully")
                 /\ last'.uid = u
                 /\ get_current_user(last'.presented) = u
                 /\ verify_password(last'.password, users[u].hashed_password)]_vars

\* ann has changed her password and logged out, bob's password was reset with
\* his token, and a reset-password with a short new password has failed since
C30_Witness ==
    /\ users[1].hashed_password = get_password_hash(PwTwo)
    /\ users[2].hashed_password = get_password_hash(PwTwo)
    /\ redeemed # {}
    /\ \A i \in 1..Len(tokens) : tokens[i].user_id = 2
    /\ sess["s1"].op = "reset_password" /\ sess["s1"].pc = "done"
    /\ sess["s1"].result = "WeakPassword"
    /\ last.op = "logout" /\ last.uid = 1 /\ last.outcome.status = 200
====
